---- MODULE Spec2Model ----
(***************************************************************************)
(* EmbyClient (src/src/app/api/admin/emby/route.ts): the session held by   *)
(* one client instance, the login exchange, the four user-scoped data      *)
(* operations with their re-authenticate-and-retry branch, and the         *)
(* connectivity probe.                                                     *)
(*                                                                         *)
(* A falsy JavaScript value (undefined or the empty string) is the empty   *)
(* string "".  Every `await` of a network call is a position of the        *)
(* calling operation: the request is appended to reqs[p] when fetch is     *)
(* called and the answer to resps[p] when the awaited promise settles.     *)
(***************************************************************************)
EXTENDS Integers, Sequences, FiniteSets, TLC

\* Number of distinct (AccessToken, User.Id) values the login endpoint hands out.
NumIssued == 2

\* Longest config.ServerURL, in characters, the normalization is tried on.
MaxLen == 6

\* Longest list of media streams of a media source handed to getSubtitles.
MaxStreams == 2

\* Callers that may have an operation of the one client in flight.
Procs == {"c1", "c2"}

DataOps == {"getItems", "getItem", "getSeasons", "getEpisodes"}
Ops == DataOps \cup {"authenticate", "checkConnectivity", "getCurrentUser",
                     "getImageUrl", "getStreamUrl", "getSubtitles"}

\* response.status of the "unauthorized" answer tested by the retry branch.
HTTP_UNAUTHORIZED == 401

\* Status recorded for a fetch whose promise rejects (no HTTP response at all).
FETCH_REJECTED == 0

Statuses == {200, HTTP_UNAUTHORIZED, 403, 500}
Texts == {"bodyA", "bodyB"}

IssuedTokens == {"tok" \o ToString(i) : i \in 1..NumIssued}
IssuedIds == {"uid" \o ToString(i) : i \in 1..NumIssued}

\* Response.ok of the fetch API: a status in the range 200-299.
IsOk(status) == status >= 200 /\ status <= 299

Response(status, text, token, uid) ==
  [status |-> status, text |-> text, token |-> token, uid |-> uid]

\* The JSON bodies of a success answer of a data endpoint: without an Items
\* field, with an empty one, with one item.
OkBodies == {"{}", "{Items:[]}", "{Items:[item1]}"}

\* data.Items of the object response.json() gives: <<>> when the field is
\* absent (undefined), <<list>> when it is present.
ItemsOf(text) ==
  CASE text = "{Items:[]}" -> << <<>> >>
    [] text = "{Items:[item1]}" -> << <<"item1">> >>
    [] OTHER -> <<>>

\* What the awaited fetch of a data endpoint or of the probe can settle to.
FetchThrew == Response(FETCH_REJECTED, "", "", "")
DataResponses ==
  {Response(s, t, "", "") : s \in {x \in Statuses : ~IsOk(x)}, t \in Texts}
    \cup {Response(s, t, "", "") : s \in {x \in Statuses : IsOk(x)}, t \in OkBodies}
    \cup {FetchThrew}

\* What the awaited fetch of /Users/AuthenticateByName can settle to: a success
\* answer carries { AccessToken, User: { Id } }, both non-empty strings as the
\* server's wire protocol gives them.
LoginResponses ==
  {Response(200, "", t, u) : t \in IssuedTokens, u \in IssuedIds}
    \cup {Response(s, t, "", "") : s \in {x \in Statuses : ~IsOk(x)}, t \in Texts}
    \cup {FetchThrew}

VARIABLES
  ServerURL,   \* config.ServerURL, a string as the sequence of its characters
  serverUrl,   \* this.serverUrl, likewise; <<>> before the constructor has run
  apiKey,      \* this.apiKey
  userId,      \* this.userId
  authToken,   \* this.authToken
  username,    \* this.username
  password,    \* this.password
  pc,          \* pc[p]: the await at which p's operation is suspended
  op,          \* op[p]: the operation p called last
  args,        \* args[p]: the arguments of that call that the model reads
  authResult,  \* authResult[p]: the local `authResult` of p's operation
  entry,       \* entry[p]: this.authToken and this.userId when p's operation was called
  reqs,        \* reqs[p]: the fetch calls p's operation has made, in order
  resps,       \* resps[p]: what those fetch calls settled to, in order
  result,      \* result[p]: the value returned or the Error thrown to the caller
  admin        \* the admin route: the POST request being handled and the config store

session == <<apiKey, userId, authToken, username, password>>
endpoint == <<ServerURL, serverUrl>>
vars == <<ServerURL, serverUrl, apiKey, userId, authToken, username, password,
          pc, op, args, authResult, entry, reqs, resps, result, admin>>

\* 'http://host:8096/' and 'http://host:8096/emby'.
HostSlash ==
  <<"h", "t", "t", "p", ":", "/", "/", "h", "o", "s", "t", ":", "8", "0", "9", "6", "/">>
HostEmby ==
  <<"h", "t", "t", "p", ":", "/", "/", "h", "o", "s", "t", ":", "8", "0", "9", "6",
    "/", "e", "m", "b", "y">>

\* The API-root path segment '/emby'.
EmbySuffix == <<"/", "e", "m", "b", "y">>

\* String.prototype.endsWith
EndsWith(str, suffix) ==
  /\ Len(str) >= Len(suffix)
  /\ SubSeq(str, Len(str) - Len(suffix) + 1, Len(str)) = suffix

\* str.replace(/\/$/, ''): one trailing slash removed.
StripSlash(str) ==
  IF Len(str) > 0 /\ str[Len(str)] = "/" THEN SubSeq(str, 1, Len(str) - 1) ELSE str

\* Normalize with the trailing slash left in place.
NormalizeNoStrip(url) ==
  IF EndsWith(url, EmbySuffix) THEN url ELSE url \o EmbySuffix

\* The constructor's normalization of config.ServerURL.
Normalize(url) ==
  IF EndsWith(StripSlash(url), EmbySuffix)
    THEN StripSlash(url)
    ELSE StripSlash(url) \o EmbySuffix

Request(kind, cred, uid) == [kind |-> kind, cred |-> cred, uid |-> uid]
LoginRequest == Request("login", "", "")

NoArgs == [none |-> TRUE]
NoAuthResult == [token |-> "", uid |-> ""]
NoResult == [kind |-> "none", label |-> "", detail |-> <<>>, value |-> <<>>]
Returned(v) == [kind |-> "value", label |-> "", detail |-> <<>>, value |-> v]
Thrown(label, detail) ==
  [kind |-> "error", label |-> label, detail |-> detail, value |-> <<>>]

\* adminConfig.EmbyConfig: no Emby configuration stored yet.
NoConfig ==
  [Enabled |-> FALSE, ServerURL |-> <<>>, ApiKey |-> "", Username |-> "",
   Password |-> "", UserId |-> "", AuthToken |-> ""]

\* The JSON body of no request.
NoBody ==
  [action |-> "none", Enabled |-> FALSE, ServerURL |-> <<>>, ApiKey |-> "",
   Username |-> "", Password |-> "", UserId |-> ""]

\* The admin route with no request being handled and `stored` in the store.
NoRequest(stored) ==
  [pc |-> "idle", storageType |-> "", body |-> NoBody, bodyOk |-> TRUE,
   username |-> "", configOk |-> TRUE, userInfo |-> "none",
   finalUserId |-> "", authToken |-> "", EmbyConfig |-> NoConfig, saved |-> 0,
   stored |-> stored, before |-> stored, status |-> 0, success |-> FALSE]

\* The configurations a client can be constructed from (constructor, each
\* optional field present or absent).
Init ==
  /\ ServerURL \in {HostSlash, HostEmby}
  /\ serverUrl = Normalize(ServerURL)
  /\ apiKey \in {"", "key0"}
  /\ userId \in {"", "uid0"}
  /\ authToken \in {"", "tok0"}
  /\ username \in {"", "name0"}
  /\ password \in {"", "pw0"}
  /\ pc = [p \in Procs |-> "idle"]
  /\ op = [p \in Procs |-> "none"]
  /\ args = [p \in Procs |-> NoArgs]
  /\ authResult = [p \in Procs |-> NoAuthResult]
  /\ entry = [p \in Procs |-> NoAuthResult]
  /\ reqs = [p \in Procs |-> <<>>]
  /\ resps = [p \in Procs |-> <<>>]
  /\ result = [p \in Procs |-> NoResult]
  /\ admin = NoRequest(NoConfig)

\* ensureAuthenticated: neither early return is taken and a login is started.
NeedsLogin ==
  /\ apiKey = ""
  /\ authToken = ""
  /\ username # "" /\ password # ""

\* Credential with the operands of `||` swapped: the token wins over the apiKey.
CredentialTokenFirst == IF authToken # "" THEN authToken ELSE apiKey

\* const token = this.apiKey || this.authToken
Credential == IF apiKey # "" THEN apiKey ELSE authToken

\* ShouldReauth without the `!this.apiKey` conjunct.
ShouldReauthIgnoringApiKey(status) ==
  /\ status = HTTP_UNAUTHORIZED
  /\ username # "" /\ password # ""

\* ShouldReauth with any non-success status taken for an expired session.
ShouldReauthOnAnyFailure(status) ==
  /\ ~IsOk(status)
  /\ username # "" /\ password # ""
  /\ apiKey = ""

\* The condition of the re-authentication branch of a data operation.
ShouldReauth(status) ==
  /\ status = HTTP_UNAUTHORIZED
  /\ username # "" /\ password # ""
  /\ apiKey = ""

\* The Error thrown by authenticate on a non-success answer.
AuthenticationError(r) == Thrown("EmbyAuthFailed", <<r.status, r.text>>)

\* The Error thrown by a data operation when this.userId is falsy.
UserIdError == Thrown("EmbyUserIdNotConfigured", <<>>)

\* The rejection of fetch itself, which no data operation catches.
FetchError == Thrown("FetchFailed", <<>>)

\* The Error a data operation throws on a non-success (first or retried) answer.
RequestError(o, r) ==
  CASE o = "getItems" -> Thrown("GetItemsFailed", <<r.status, r.text>>)
    [] o = "getItem" -> Thrown("GetItemFailed", <<>>)
    [] o = "getSeasons" -> Thrown("GetSeasonsFailed", <<>>)
    [] o = "getEpisodes" -> Thrown("GetEpisodesFailed", <<>>)

\* What a data operation returns on a success answer: getItems and getItem
\* return the parsed body as it is, getSeasons and getEpisodes return
\* `data.Items || []`.
Payload(o, r) ==
  IF o \in {"getSeasons", "getEpisodes"}
    THEN IF ItemsOf(r.text) = <<>> THEN <<>> ELSE ItemsOf(r.text)[1]
    ELSE [Items |-> ItemsOf(r.text)]

\* DataRequest with `const token = this.apiKey` (the `|| this.authToken` lost).
DataRequestApiKeyOnly == Request("data", apiKey, userId)

\* The request a data operation builds from the session as it is now.
DataRequest == Request("data", Credential, userId)

\* RetryRequest with the retry URL built from the `token` captured before the
\* re-login instead of the refreshed this.authToken.
RetryRequestStaleToken(p) ==
  Request("data", reqs[p][Len(reqs[p]) - 1].cred, authResult[p].uid)

\* The request rebuilt after the re-login: it reads this.authToken and
\* this.userId right after they were assigned from the local authResult.
RetryRequest(p) == Request("data", authResult[p].token, authResult[p].uid)

\* getHeaders: the X-Emby-Token header, <<>> when it is not set.
getHeaders ==
  [ContentType |-> "application/json",
   XEmbyToken |-> IF apiKey # "" THEN <<apiKey>>
                  ELSE IF authToken # "" THEN <<authToken>> ELSE <<>>]

\* The request of getCurrentUser, which carries the headers of getHeaders.
HeaderRequest ==
  Request("me", IF getHeaders.XEmbyToken = <<>> THEN "" ELSE getHeaders.XEmbyToken[1], "")

\* The probe request of checkConnectivity.
ProbeRequest == Request("probe", Credential, "")

Begin(p, o) ==
  /\ pc[p] = "idle"
  /\ op' = [op EXCEPT ![p] = o]
  /\ args' = [args EXCEPT ![p] = NoArgs]
  /\ authResult' = [authResult EXCEPT ![p] = NoAuthResult]
  /\ entry' = [entry EXCEPT ![p] = [token |-> authToken, uid |-> userId]]
  /\ resps' = [resps EXCEPT ![p] = <<>>]
  /\ result' = [result EXCEPT ![p] = NoResult]

Finish(p, r) ==
  /\ pc' = [pc EXCEPT ![p] = "done"]
  /\ result' = [result EXCEPT ![p] = r]

\* A caller invokes a data operation: ensureAuthenticated runs up to its first
\* await (the login fetch), or returns at once.
CallData(p, o) ==
  /\ o \in DataOps
  /\ Begin(p, o)
  /\ IF NeedsLogin
       THEN /\ reqs' = [reqs EXCEPT ![p] = <<LoginRequest>>]
            /\ pc' = [pc EXCEPT ![p] = "ensure_login"]
       ELSE /\ reqs' = [reqs EXCEPT ![p] = <<>>]
            /\ pc' = [pc EXCEPT ![p] = "ensured"]
  /\ UNCHANGED session

\* A caller invokes authenticate directly (the admin route does).
CallAuthenticate(p) ==
  /\ Begin(p, "authenticate")
  /\ reqs' = [reqs EXCEPT ![p] = <<LoginRequest>>]
  /\ pc' = [pc EXCEPT ![p] = "auth_login"]
  /\ UNCHANGED session

\* The position an operation continues at once authenticate has returned.
AfterLogin(at) ==
  CASE at = "ensure_login" -> "ensure_resume"
    [] at = "relogin" -> "retry_resume"
    [] at = "auth_login" -> "done"

\* authenticate with the session assigned from the answer before response.ok is
\* tested, so that a rejected login wipes the cached token and user id.
authenticateAssignsBeforeCheck(p, r) ==
  /\ pc[p] \in {"ensure_login", "relogin", "auth_login"}
  /\ r \in LoginResponses
  /\ resps' = [resps EXCEPT ![p] = Append(@, r)]
  /\ authToken' = r.token
  /\ userId' = r.uid
  /\ IF r = FetchThrew \/ ~IsOk(r.status)
       THEN /\ Finish(p, IF r = FetchThrew THEN FetchError ELSE AuthenticationError(r))
            /\ UNCHANGED authResult
       ELSE /\ authResult' = [authResult EXCEPT ![p] = [token |-> r.token, uid |-> r.uid]]
            /\ pc' = [pc EXCEPT ![p] = AfterLogin(pc[p])]
            /\ result' = [result EXCEPT ![p] =
                 IF pc[p] = "auth_login" THEN Returned(<<r.token, r.uid>>) ELSE @]
  /\ UNCHANGED <<apiKey, username, password, op, args, entry, reqs>>

\* authenticate with a rejected login caught and ignored inside a data operation,
\* which then goes on as if the login had returned.
authenticateSwallowsFailure(p, r) ==
  /\ pc[p] \in {"ensure_login", "relogin", "auth_login"}
  /\ r \in LoginResponses
  /\ resps' = [resps EXCEPT ![p] = Append(@, r)]
  /\ IF r = FetchThrew \/ ~IsOk(r.status)
       THEN /\ IF pc[p] = "auth_login"
                 THEN Finish(p, IF r = FetchThrew THEN FetchError ELSE AuthenticationError(r))
                 ELSE /\ pc' = [pc EXCEPT ![p] = AfterLogin(pc[p])]
                      /\ UNCHANGED result
            /\ authResult' = [authResult EXCEPT ![p] = [token |-> authToken, uid |-> userId]]
            /\ UNCHANGED session
       ELSE /\ authToken' = r.token
            /\ userId' = r.uid
            /\ authResult' = [authResult EXCEPT ![p] = [token |-> r.token, uid |-> r.uid]]
            /\ pc' = [pc EXCEPT ![p] = AfterLogin(pc[p])]
            /\ result' = [result EXCEPT ![p] =
                 IF pc[p] = "auth_login" THEN Returned(<<r.token, r.uid>>) ELSE @]
            /\ UNCHANGED <<apiKey, username, password>>
  /\ UNCHANGED <<op, args, entry, reqs>>

\* authenticate, from the settling of its fetch to its return or throw.
authenticate(p, r) ==
  /\ pc[p] \in {"ensure_login", "relogin", "auth_login"}
  /\ r \in LoginResponses
  /\ resps' = [resps EXCEPT ![p] = Append(@, r)]
  /\ IF r = FetchThrew
       THEN /\ Finish(p, FetchError)
            /\ UNCHANGED <<session, authResult>>
       ELSE IF ~IsOk(r.status)
         THEN /\ Finish(p, AuthenticationError(r))
              /\ UNCHANGED <<session, authResult>>
         ELSE /\ authToken' = r.token
              /\ userId' = r.uid
              /\ authResult' = [authResult EXCEPT ![p] = [token |-> r.token, uid |-> r.uid]]
              /\ pc' = [pc EXCEPT ![p] = AfterLogin(pc[p])]
              /\ result' = [result EXCEPT ![p] =
                   IF pc[p] = "auth_login" THEN Returned(<<r.token, r.uid>>) ELSE @]
              /\ UNCHANGED <<apiKey, username, password>>
  /\ UNCHANGED <<op, args, entry, reqs>>

\* EnsureResume assigning only this.userId, the token being left as
\* authenticate stored it.
EnsureResumeUserIdOnly(p) ==
  /\ pc[p] = "ensure_resume"
  /\ userId' = authResult[p].uid
  /\ pc' = [pc EXCEPT ![p] = "ensured"]
  /\ UNCHANGED <<apiKey, authToken, username, password, op, args, authResult, entry, reqs, resps, result>>

\* ensureAuthenticated after its await of authenticate: it assigns the session
\* from its local authResult and returns.
EnsureResume(p) ==
  /\ pc[p] = "ensure_resume"
  /\ authToken' = authResult[p].token
  /\ userId' = authResult[p].uid
  /\ pc' = [pc EXCEPT ![p] = "ensured"]
  /\ UNCHANGED <<apiKey, username, password, op, args, authResult, entry, reqs, resps, result>>

\* SendData building its request from the session as it was when the operation
\* was called, not as it is when the request is built.
SendDataEntrySnapshot(p) ==
  /\ pc[p] = "ensured"
  /\ IF userId = ""
       THEN /\ Finish(p, UserIdError)
            /\ UNCHANGED reqs
       ELSE /\ reqs' = [reqs EXCEPT ![p] =
                  Append(@, Request("data", IF apiKey # "" THEN apiKey ELSE entry[p].token,
                                    entry[p].uid))]
            /\ pc' = [pc EXCEPT ![p] = "fetch"]
            /\ UNCHANGED result
  /\ UNCHANGED <<session, op, args, authResult, entry, resps>>

\* SendData without the `if (!this.userId) throw` guard.
SendDataUnchecked(p) ==
  /\ pc[p] = "ensured"
  /\ reqs' = [reqs EXCEPT ![p] = Append(@, DataRequest)]
  /\ pc' = [pc EXCEPT ![p] = "fetch"]
  /\ UNCHANGED <<session, op, args, authResult, entry, resps, result>>

\* A data operation after its await of ensureAuthenticated: the userId check,
\* the building of the request and the call of fetch.
SendData(p) ==
  /\ pc[p] = "ensured"
  /\ IF userId = ""
       THEN /\ Finish(p, UserIdError)
            /\ UNCHANGED reqs
       ELSE /\ reqs' = [reqs EXCEPT ![p] = Append(@, DataRequest)]
            /\ pc' = [pc EXCEPT ![p] = "fetch"]
            /\ UNCHANGED result
  /\ UNCHANGED <<session, op, args, authResult, entry, resps>>

\* A data operation after its first fetch settled.
FirstResponse(p, r) ==
  /\ pc[p] = "fetch"
  /\ r \in DataResponses
  /\ resps' = [resps EXCEPT ![p] = Append(@, r)]
  /\ IF r = FetchThrew
       THEN /\ Finish(p, FetchError)
            /\ UNCHANGED reqs
       ELSE IF ShouldReauth(r.status)
         THEN /\ reqs' = [reqs EXCEPT ![p] = Append(@, LoginRequest)]
              /\ pc' = [pc EXCEPT ![p] = "relogin"]
              /\ UNCHANGED result
         ELSE /\ Finish(p, IF IsOk(r.status) THEN Returned(<<Payload(op[p], r)>>)
                                             ELSE RequestError(op[p], r))
              /\ UNCHANGED reqs
  /\ UNCHANGED <<session, op, args, authResult, entry>>

\* A data operation after its await of the re-login: it assigns the session
\* from its local authResult, rebuilds the request and calls fetch again.
RetryResume(p) ==
  /\ pc[p] = "retry_resume"
  /\ authToken' = authResult[p].token
  /\ userId' = authResult[p].uid
  /\ reqs' = [reqs EXCEPT ![p] = Append(@, RetryRequest(p))]
  /\ pc' = [pc EXCEPT ![p] = "retry_fetch"]
  /\ UNCHANGED <<apiKey, username, password, op, args, authResult, entry, resps, result>>

\* RetryResponse with the 401 test applied to the retried answer too, so that a
\* second 401 starts another re-login.
RetryResponseRetriesAgain(p, r) ==
  /\ pc[p] = "retry_fetch"
  /\ r \in DataResponses
  /\ resps' = [resps EXCEPT ![p] = Append(@, r)]
  /\ IF r # FetchThrew /\ ShouldReauth(r.status) /\ Len(reqs[p]) < 6
       THEN /\ reqs' = [reqs EXCEPT ![p] = Append(@, LoginRequest)]
            /\ pc' = [pc EXCEPT ![p] = "relogin"]
            /\ UNCHANGED result
       ELSE /\ Finish(p, IF r = FetchThrew THEN FetchError
                         ELSE IF IsOk(r.status) THEN Returned(<<Payload(op[p], r)>>)
                         ELSE RequestError(op[p], r))
            /\ UNCHANGED reqs
  /\ UNCHANGED <<session, op, args, authResult, entry>>

\* A data operation after its retried fetch settled.
RetryResponse(p, r) ==
  /\ pc[p] = "retry_fetch"
  /\ r \in DataResponses
  /\ resps' = [resps EXCEPT ![p] = Append(@, r)]
  /\ Finish(p, IF r = FetchThrew THEN FetchError
               ELSE IF IsOk(r.status) THEN Returned(<<Payload(op[p], r)>>)
               ELSE RequestError(op[p], r))
  /\ UNCHANGED <<session, op, args, authResult, entry, reqs>>

\* A caller invokes checkConnectivity: the probe URL is built and fetched.
CallCheckConnectivity(p) ==
  /\ Begin(p, "checkConnectivity")
  /\ reqs' = [reqs EXCEPT ![p] = <<ProbeRequest>>]
  /\ pc' = [pc EXCEPT ![p] = "probe"]
  /\ UNCHANGED session

\* ProbeResult without the try/catch: the rejection of fetch reaches the caller.
ProbeResultRethrows(r) ==
  IF r = FetchThrew THEN FetchError ELSE Returned(<<IsOk(r.status)>>)

\* What checkConnectivity returns for what its fetch settled to.
ProbeResult(r) == IF r = FetchThrew THEN Returned(<<FALSE>>) ELSE Returned(<<IsOk(r.status)>>)

\* checkConnectivity after its fetch settled, or in its catch clause.
checkConnectivity(p, r) ==
  /\ pc[p] = "probe"
  /\ r \in DataResponses
  /\ resps' = [resps EXCEPT ![p] = Append(@, r)]
  /\ Finish(p, ProbeResult(r))
  /\ UNCHANGED <<session, op, args, authResult, entry, reqs>>

\* A caller invokes getCurrentUser: the request carries the headers of getHeaders.
CallGetCurrentUser(p) ==
  /\ Begin(p, "getCurrentUser")
  /\ reqs' = [reqs EXCEPT ![p] = <<HeaderRequest>>]
  /\ pc' = [pc EXCEPT ![p] = "me_fetch"]
  /\ UNCHANGED session

\* getCurrentUser after its fetch settled; its catch clause rethrows.
getCurrentUser(p, r) ==
  /\ pc[p] = "me_fetch"
  /\ r \in DataResponses
  /\ resps' = [resps EXCEPT ![p] = Append(@, r)]
  /\ Finish(p, IF r = FetchThrew THEN FetchError
               ELSE IF IsOk(r.status) THEN Returned(<<r.text>>)
               ELSE Thrown("GetCurrentUserFailed", <<r.status, r.text>>))
  /\ UNCHANGED <<session, op, args, authResult, entry, reqs>>

(***************************************************************************)
(* The URL builders.  A URL is the endpoint, the pieces of text that follow *)
(* it up to the query, and the query's <<name, value>> pairs in order.  The *)
(* values used here are letters and digits, which URLSearchParams leaves    *)
(* as they are.                                                             *)
(***************************************************************************)
Url(path, query) == [endpoint |-> serverUrl, path |-> path, query |-> query]

\* `${x}` of a value that may be undefined.
Interpolated(x) == IF x = "" THEN "undefined" ELSE x

\* getImageUrl; maxWidth 0 stands for the argument left out.
getImageUrl(a) ==
  Url(<<"/Items/", a.itemId, "/Images/", a.imageType>>,
      (IF a.maxWidth # 0 THEN << <<"maxWidth", ToString(a.maxWidth)>> >> ELSE <<>>)
        \o (IF Credential # "" THEN << <<"api_key", Credential>> >> ELSE <<>>))

\* getStreamUrl
getStreamUrl(a) ==
  IF a.direct
    THEN Url(<<"/Videos/", a.itemId, "/stream">>,
             << <<"Static", "true">>, <<"api_key", Interpolated(Credential)>> >>)
    ELSE Url(<<"/Videos/", a.itemId, "/master.m3u8">>,
             << <<"api_key", Interpolated(Credential)>> >>)

\* SubtitleEntry with the credential appended to the delivery URL of an external
\* stream as well.
SubtitleEntryCredentialed(item, mediaSource, stream) ==
  LET language == IF stream.Language # "" THEN stream.Language ELSE "unknown"
      label == IF stream.DisplayTitle # "" THEN <<stream.DisplayTitle>>
               ELSE <<language, " (", stream.Codec, ")">>
  IN  IF stream.IsExternal /\ stream.DeliveryUrl # ""
        THEN [url |-> Url(<<stream.DeliveryUrl>>,
                          << <<"api_key", Interpolated(Credential)>> >>),
              language |-> language, label |-> label]
        ELSE [url |-> Url(<<"/Videos/", item.Id, "/", mediaSource.Id, "/Subtitles/",
                            ToString(stream.Index), "/Stream.vtt">>,
                          << <<"api_key", Interpolated(Credential)>> >>),
              language |-> language, label |-> label]

\* The entry getSubtitles pushes for one stream of type Subtitle.
SubtitleEntry(item, mediaSource, stream) ==
  LET language == IF stream.Language # "" THEN stream.Language ELSE "unknown"
      label == IF stream.DisplayTitle # "" THEN <<stream.DisplayTitle>>
               ELSE <<language, " (", stream.Codec, ")">>
  IN  IF stream.IsExternal /\ stream.DeliveryUrl # ""
        THEN [url |-> Url(<<stream.DeliveryUrl>>, <<>>),
              language |-> language, label |-> label]
        ELSE [url |-> Url(<<"/Videos/", item.Id, "/", mediaSource.Id, "/Subtitles/",
                            ToString(stream.Index), "/Stream.vtt">>,
                          << <<"api_key", Interpolated(Credential)>> >>),
              language |-> language, label |-> label]

IsSubtitle(stream) == stream.Type = "Subtitle"

\* Array.prototype.filter, then forEach with push.
RECURSIVE SubtitleEntries(_, _, _)
SubtitleEntries(item, mediaSource, streams) ==
  IF streams = <<>> THEN <<>>
  ELSE (IF IsSubtitle(Head(streams))
          THEN <<SubtitleEntry(item, mediaSource, Head(streams))>> ELSE <<>>)
         \o SubtitleEntries(item, mediaSource, Tail(streams))

\* getSubtitles; an optional field is <<>> when absent and <<value>> when present.
getSubtitles(a) ==
  LET item == a.item IN
    IF item.MediaSources = <<>> \/ item.MediaSources[1] = <<>> THEN <<>>
    ELSE LET mediaSource == item.MediaSources[1][1] IN
      IF mediaSource.MediaStreams = <<>> THEN <<>>
      ELSE SubtitleEntries(item, mediaSource, mediaSource.MediaStreams[1])

\* The streams the media sources of the items at hand are made of.
Stream(type, index, external, delivery, language, title, codec) ==
  [Type |-> type, Index |-> index, IsExternal |-> external, DeliveryUrl |-> delivery,
   Language |-> language, DisplayTitle |-> title, Codec |-> codec]
StreamPool ==
  { Stream("Video", 0, FALSE, "", "", "", "h264"),
    Stream("Subtitle", 1, TRUE, "/sub1.vtt", "eng", "English", "srt"),
    Stream("Subtitle", 2, FALSE, "", "chi", "", "subrip"),
    Stream("Subtitle", 3, TRUE, "", "", "", "ass"),
    Stream("Subtitle", 4, FALSE, "/sub4.vtt", "", "Forced", "pgs") }
StreamLists == UNION {[1..n -> StreamPool] : n \in 0..MaxStreams}

MediaSource(id, streams) == [Id |-> id, MediaStreams |-> streams]
Items ==
  {[Id |-> "item1", MediaSources |-> <<>>],
   [Id |-> "item1", MediaSources |-> << <<>> >>],
   [Id |-> "item1", MediaSources |-> << <<MediaSource("ms1", <<>>)>> >>]}
    \cup {[Id |-> "item1", MediaSources |-> << <<MediaSource("ms1", <<l>>)>> >>] :
            l \in StreamLists}
    \cup {[Id |-> "item2", MediaSources |->
              << <<MediaSource("ms1", <<l>>), MediaSource("ms2", <<l>>)>> >>] :
            l \in {k \in StreamLists : Len(k) = 1}}

UrlOps == {"getImageUrl", "getStreamUrl", "getSubtitles"}
ArgsOf(o) ==
  CASE o = "getImageUrl" ->
         [itemId : {"item1"}, imageType : {"Primary", "Backdrop", "Logo"},
          maxWidth : {0, 300}]
    [] o = "getStreamUrl" -> [itemId : {"item1"}, direct : BOOLEAN]
    [] o = "getSubtitles" -> [item : Items]

\* What a URL builder returns.
Built(o, a) ==
  CASE o = "getImageUrl" -> getImageUrl(a)
    [] o = "getStreamUrl" -> getStreamUrl(a)
    [] o = "getSubtitles" -> getSubtitles(a)

\* A caller invokes a URL builder, which returns without awaiting anything.
Build(p, o, a) ==
  /\ o \in UrlOps /\ a \in ArgsOf(o)
  /\ pc[p] = "idle"
  /\ op' = [op EXCEPT ![p] = o]
  /\ args' = [args EXCEPT ![p] = a]
  /\ entry' = [entry EXCEPT ![p] = [token |-> authToken, uid |-> userId]]
  /\ pc' = [pc EXCEPT ![p] = "done"]
  /\ result' = [result EXCEPT ![p] = Returned(<<Built(o, a)>>)]
  /\ UNCHANGED <<session, authResult, reqs, resps>>

\* The caller takes the settled promise's value or Error: the operation's
\* locals and its record of fetch calls are gone.
Return(p) ==
  /\ pc[p] = "done"
  /\ pc' = [pc EXCEPT ![p] = "idle"]
  /\ op' = [op EXCEPT ![p] = "none"]
  /\ args' = [args EXCEPT ![p] = NoArgs]
  /\ authResult' = [authResult EXCEPT ![p] = NoAuthResult]
  /\ entry' = [entry EXCEPT ![p] = NoAuthResult]
  /\ reqs' = [reqs EXCEPT ![p] = <<>>]
  /\ resps' = [resps EXCEPT ![p] = <<>>]
  /\ result' = [result EXCEPT ![p] = NoResult]
  /\ UNCHANGED session

\* No operation of another caller is in flight.
Quiescent(p) == \A q \in Procs \ {p} : pc[q] = "idle"

\* One operation at a time: a caller awaits each operation before the next.
ClientNext ==
  \E p \in Procs :
    \/ \E o \in DataOps : Quiescent(p) /\ CallData(p, o)
    \/ Quiescent(p) /\ CallAuthenticate(p)
    \/ Quiescent(p) /\ CallCheckConnectivity(p)
    \/ \E r \in LoginResponses : authenticate(p, r)
    \/ EnsureResume(p)
    \/ SendData(p)
    \/ \E r \in DataResponses : FirstResponse(p, r)
    \/ RetryResume(p)
    \/ \E r \in DataResponses : RetryResponse(p, r)
    \/ \E r \in DataResponses : checkConnectivity(p, r)
    \/ Quiescent(p) /\ CallGetCurrentUser(p)
    \/ \E r \in DataResponses : getCurrentUser(p, r)
    \/ \E o \in UrlOps : \E a \in ArgsOf(o) : Quiescent(p) /\ Build(p, o, a)
    \/ Return(p)

Next == ClientNext /\ UNCHANGED <<endpoint, admin>>

Spec == Init /\ [][Next]_vars

\* The steps of p's operation that follow an await: a settled network call or
\* the continuation after one.
Step(p) ==
  /\ \/ \E r \in LoginResponses : authenticate(p, r)
     \/ EnsureResume(p)
     \/ SendData(p)
     \/ \E r \in DataResponses : FirstResponse(p, r)
     \/ RetryResume(p)
     \/ \E r \in DataResponses : RetryResponse(p, r)
     \/ \E r \in DataResponses : checkConnectivity(p, r)
     \/ \E r \in DataResponses : getCurrentUser(p, r)
  /\ UNCHANGED <<endpoint, admin>>

\* Every network call settles and every continuation runs.
FairSpec == Spec /\ \A p \in Procs : WF_vars(Step(p))

(***************************************************************************)
(* Operations of several callers in flight on the one client at once: the   *)
(* callers do not await each other, so the continuations of their awaits    *)
(* interleave in any order.  Each success answer of the login endpoint      *)
(* hands out its own (AccessToken, User.Id) pair, the i-th token with the   *)
(* i-th user id, so that the origin of a session value can be told.         *)
(***************************************************************************)
IssuedPairs == {<<"tok" \o ToString(i), "uid" \o ToString(i)>> : i \in 1..NumIssued}

ConcLoginResponses ==
  {Response(200, "", pr[1], pr[2]) : pr \in IssuedPairs}
    \cup {Response(HTTP_UNAUTHORIZED, "bodyA", "", "")}

ConcDataResponses ==
  {Response(200, "{}", "", ""), Response(HTTP_UNAUTHORIZED, "bodyA", "", "")}

ConcOps == {"getItems", "getSeasons"}

ConcInit ==
  /\ Init
  /\ ServerURL = HostSlash

ConcNext ==
  /\ \E p \in Procs :
       \/ \E o \in ConcOps : CallData(p, o)
       \/ CallAuthenticate(p)
       \/ \E r \in ConcLoginResponses : authenticate(p, r)
       \/ EnsureResume(p)
       \/ SendData(p)
       \/ \E r \in ConcDataResponses : FirstResponse(p, r)
       \/ RetryResume(p)
       \/ \E r \in ConcDataResponses : RetryResponse(p, r)
       \/ Return(p)
  /\ UNCHANGED <<endpoint, admin>>

ConcSpec == ConcInit /\ [][ConcNext]_vars

\* The same callers on a client constructed with username and password, without
\* apiKey and without token.
ConcLoginInit == ConcInit /\ NeedsLogin

ConcLoginSpec == ConcLoginInit /\ [][ConcNext]_vars

(***************************************************************************)
(* POST /api/admin/emby: one request at a time, from its arrival to its     *)
(* response, each await a position (admin.pc).  The handler's EmbyClient is *)
(* the client of this module, driven by the caller Handler; reqs[Handler]   *)
(* and resps[Handler] are the fetch calls of that client during the         *)
(* request.  Libraries and LastSyncTime are not modelled.                   *)
(***************************************************************************)
Handler == "c1"

\* process.env.USERNAME, and the names a cookie can authenticate ("" is no
\* authInfo or no username in it).
Owner == "owner"
CookieUsers == {"", Owner, "alice"}

StorageTypes == {"localstorage", "redis"}

\* What db.getUserInfoV2 settles to: it throws, finds no user, or finds a user
\* with role admin, with role admin and banned, or with role user.
UserInfos == {"threw", "null", "admin", "banned", "user"}

Bodies ==
  [action : {"save", "test", "other"}, Enabled : BOOLEAN,
   ServerURL : {<<>>, HostSlash}, ApiKey : {"", "key0"},
   Username : {"", "name0"}, Password : {"", "pw0"}, UserId : {"", "uid0"}]

\* The configuration saved for `Enabled: false`.
DisabledConfig(b) ==
  [Enabled |-> FALSE, ServerURL |-> b.ServerURL, ApiKey |-> b.ApiKey,
   Username |-> b.Username, Password |-> b.Password, UserId |-> "", AuthToken |-> ""]

\* The configuration saved after the connection test.
EnabledConfig(b, finalUserId, token) ==
  [Enabled |-> TRUE, ServerURL |-> b.ServerURL, ApiKey |-> b.ApiKey,
   Username |-> b.Username, Password |-> b.Password,
   UserId |-> finalUserId, AuthToken |-> token]

\* NextResponse.json(..., { status }): the handler returns.
Respond(a, status, success) ==
  [a EXCEPT !.pc = "responded", !.status = status, !.success = success]

\* The status of a failed login or connection test: 400 for 'save', 200 with
\* success false for 'test'.
FailureStatus(b) == IF b.action = "save" THEN 400 ELSE 200

ClientUntouched ==
  UNCHANGED <<endpoint, session, pc, op, args, authResult, entry, reqs, resps, result>>

\* new EmbyClient(testConfig): 'test' passes no UserId; neither passes AuthToken.
NewClient(b) ==
  /\ ServerURL' = b.ServerURL
  /\ serverUrl' = Normalize(b.ServerURL)
  /\ apiKey' = b.ApiKey
  /\ username' = b.Username
  /\ password' = b.Password
  /\ userId' = IF b.action = "save" THEN b.UserId ELSE ""
  /\ authToken' = ""

\* The handler calls an operation of its client, which runs to its fetch.
StartCall(o, at, calls) ==
  /\ op' = [op EXCEPT ![Handler] = o]
  /\ pc' = [pc EXCEPT ![Handler] = at]
  /\ reqs' = [reqs EXCEPT ![Handler] = calls]
  /\ args' = [args EXCEPT ![Handler] = NoArgs]
  /\ authResult' = [authResult EXCEPT ![Handler] = NoAuthResult]
  /\ entry' = [entry EXCEPT ![Handler] = [token |-> authToken', uid |-> userId']]
  /\ result' = [result EXCEPT ![Handler] = NoResult]

\* A request arrives: the storageType check, then `await request.json()`.
POST(st, b, u) ==
  /\ admin.pc = "idle"
  /\ LET a == [admin EXCEPT !.storageType = st, !.body = b, !.username = u] IN
       admin' = IF st = "localstorage" THEN Respond(a, 400, FALSE)
                ELSE [a EXCEPT !.pc = "body"]
  /\ ClientUntouched

\* request.json() settled; getAuthInfoFromCookie; `await getConfig()`.
AdminBody(ok) ==
  /\ admin.pc = "body"
  /\ LET a == [admin EXCEPT !.bodyOk = ok] IN
       admin' = IF ~ok THEN Respond(a, 500, FALSE)
                ELSE IF a.username = "" THEN Respond(a, 401, FALSE)
                ELSE [a EXCEPT !.pc = "config"]
  /\ ClientUntouched

\* The handler from the permission check passed to its next await or response.
Dispatch(a) ==
  LET b == a.body IN
    IF b.action = "save" /\ ~b.Enabled
      THEN /\ admin' = [a EXCEPT !.pc = "saving", !.EmbyConfig = DisabledConfig(b),
                                 !.saved = @ + 1]
           /\ ClientUntouched
    ELSE IF b.action \notin {"save", "test"}
      THEN admin' = Respond(a, 400, FALSE) /\ ClientUntouched
    ELSE IF b.ServerURL = <<>>
      THEN admin' = Respond(a, 400, FALSE) /\ ClientUntouched
    ELSE IF b.ApiKey = "" /\ (b.Username = "" \/ b.Password = "")
      THEN admin' = Respond(a, 400, FALSE) /\ ClientUntouched
    ELSE /\ NewClient(b)
         /\ resps' = [resps EXCEPT ![Handler] = <<>>]
         /\ IF b.ApiKey = ""
              THEN /\ StartCall("authenticate", "auth_login", <<LoginRequest>>)
                   /\ admin' = [a EXCEPT !.pc = "login", !.finalUserId = b.UserId]
              ELSE /\ StartCall("checkConnectivity", "probe", <<ProbeRequest'>>)
                   /\ admin' = [a EXCEPT !.pc = "probe", !.finalUserId = b.UserId]

\* getConfig() settled; the owner passes the permission check at once, for
\* anyone else `await db.getUserInfoV2(username)`.
AdminConfig(ok) ==
  /\ admin.pc = "config"
  /\ LET a == [admin EXCEPT !.configOk = ok] IN
       IF ~ok THEN admin' = Respond(a, 500, FALSE) /\ ClientUntouched
       ELSE IF a.username # Owner
         THEN admin' = [a EXCEPT !.pc = "userinfo"] /\ ClientUntouched
         ELSE Dispatch(a)

\* AdminUserInfo letting a banned admin through.
AdminUserInfoIgnoresBan(info) ==
  /\ admin.pc = "userinfo"
  /\ info \in UserInfos
  /\ LET a == [admin EXCEPT !.userInfo = info] IN
       IF info = "threw" THEN admin' = Respond(a, 500, FALSE) /\ ClientUntouched
       ELSE IF info \notin {"admin", "banned"}
         THEN admin' = Respond(a, 401, FALSE) /\ ClientUntouched
         ELSE Dispatch(a)

\* db.getUserInfoV2 settled: the role and banned check.
AdminUserInfo(info) ==
  /\ admin.pc = "userinfo"
  /\ info \in UserInfos
  /\ LET a == [admin EXCEPT !.userInfo = info] IN
       IF info = "threw" THEN admin' = Respond(a, 500, FALSE) /\ ClientUntouched
       ELSE IF info # "admin" THEN admin' = Respond(a, 401, FALSE) /\ ClientUntouched
       ELSE Dispatch(a)

\* client.authenticate settled: its catch clause, or the call of
\* client.checkConnectivity.
AdminLoginDone ==
  /\ admin.pc = "login"
  /\ pc[Handler] = "done"
  /\ IF result[Handler].kind = "error"
       THEN /\ admin' = Respond(admin, FailureStatus(admin.body), FALSE)
            /\ ClientUntouched
       ELSE /\ admin' = [admin EXCEPT !.pc = "probe",
                           !.authToken = result[Handler].value[1],
                           !.finalUserId = result[Handler].value[2]]
            /\ UNCHANGED <<endpoint, session, resps>>
            /\ StartCall("checkConnectivity", "probe", Append(reqs[Handler], ProbeRequest))

\* AdminProbeDone saving whatever checkConnectivity returned.
AdminProbeDoneIgnoresResult ==
  /\ admin.pc = "probe"
  /\ pc[Handler] = "done"
  /\ admin' = IF admin.body.action = "save"
                THEN [admin EXCEPT !.pc = "saving", !.saved = @ + 1,
                        !.EmbyConfig = EnabledConfig(admin.body, admin.finalUserId,
                                                     admin.authToken)]
                ELSE Respond(admin, 200, TRUE)
  /\ ClientUntouched

\* client.checkConnectivity settled: the failure response, the success
\* response of 'test', or the call of db.saveAdminConfig of 'save'.
AdminProbeDone ==
  /\ admin.pc = "probe"
  /\ pc[Handler] = "done"
  /\ admin' =
       IF result[Handler].kind = "error" THEN Respond(admin, 500, FALSE)
       ELSE IF ~result[Handler].value[1]
         THEN Respond(admin, FailureStatus(admin.body), FALSE)
       ELSE IF admin.body.action = "save"
         THEN [admin EXCEPT !.pc = "saving", !.saved = @ + 1,
                 !.EmbyConfig = EnabledConfig(admin.body, admin.finalUserId,
                                              admin.authToken)]
       ELSE Respond(admin, 200, TRUE)
  /\ ClientUntouched

\* db.saveAdminConfig settled: the success response, or the outer catch (what a
\* rejected save left in the store is not known).
AdminSaved(ok) ==
  /\ admin.pc = "saving"
  /\ \E kept \in (IF ok THEN {admin.EmbyConfig} ELSE {admin.stored, admin.EmbyConfig}) :
       admin' = [Respond(admin, IF ok THEN 200 ELSE 500, ok) EXCEPT !.stored = kept]
  /\ ClientUntouched

\* The response is sent; the handler's client is dropped.
AdminReturn ==
  /\ admin.pc = "responded"
  /\ admin' = NoRequest(admin.stored)
  /\ ServerURL' = <<>> /\ serverUrl' = <<>>
  /\ apiKey' = "" /\ userId' = "" /\ authToken' = "" /\ username' = "" /\ password' = ""
  /\ pc' = [p \in Procs |-> "idle"]
  /\ op' = [p \in Procs |-> "none"]
  /\ args' = [p \in Procs |-> NoArgs]
  /\ authResult' = [p \in Procs |-> NoAuthResult]
  /\ entry' = [p \in Procs |-> NoAuthResult]
  /\ reqs' = [p \in Procs |-> <<>>]
  /\ resps' = [p \in Procs |-> <<>>]
  /\ result' = [p \in Procs |-> NoResult]

AdminInit ==
  /\ ServerURL = <<>> /\ serverUrl = <<>>
  /\ apiKey = "" /\ userId = "" /\ authToken = "" /\ username = "" /\ password = ""
  /\ pc = [p \in Procs |-> "idle"]
  /\ op = [p \in Procs |-> "none"]
  /\ args = [p \in Procs |-> NoArgs]
  /\ authResult = [p \in Procs |-> NoAuthResult]
  /\ entry = [p \in Procs |-> NoAuthResult]
  /\ reqs = [p \in Procs |-> <<>>]
  /\ resps = [p \in Procs |-> <<>>]
  /\ result = [p \in Procs |-> NoResult]
  /\ admin = NoRequest(NoConfig)

AdminNext ==
  \/ \E st \in StorageTypes : \E b \in Bodies : \E u \in CookieUsers : POST(st, b, u)
  \/ \E ok \in BOOLEAN : AdminBody(ok)
  \/ \E ok \in BOOLEAN : AdminConfig(ok)
  \/ \E info \in UserInfos : AdminUserInfo(info)
  \/ (\E r \in LoginResponses : authenticate(Handler, r)) /\ UNCHANGED <<endpoint, admin>>
  \/ AdminLoginDone
  \/ (\E r \in DataResponses : checkConnectivity(Handler, r)) /\ UNCHANGED <<endpoint, admin>>
  \/ AdminProbeDone
  \/ \E ok \in BOOLEAN : AdminSaved(ok)
  \/ AdminReturn

AdminSpec == AdminInit /\ [][AdminNext]_vars

(***************************************************************************)
(* The constructor's endpoint normalization on its own: clients built from  *)
(* any short config.ServerURL, and clients built again from the endpoint a  *)
(* client already holds.                                                    *)
(***************************************************************************)
UrlChars == {"/", "e", "m", "b", "y"}
ServerURLs ==
  UNION {[1..n -> UrlChars] : n \in 0..MaxLen} \cup {HostSlash, HostEmby}

NormInit ==
  /\ ServerURL \in ServerURLs
  /\ serverUrl = <<>>
  /\ apiKey = "" /\ userId = "" /\ authToken = "" /\ username = "" /\ password = ""
  /\ pc = [p \in Procs |-> "idle"]
  /\ op = [p \in Procs |-> "none"]
  /\ args = [p \in Procs |-> NoArgs]
  /\ authResult = [p \in Procs |-> NoAuthResult]
  /\ entry = [p \in Procs |-> NoAuthResult]
  /\ reqs = [p \in Procs |-> <<>>]
  /\ resps = [p \in Procs |-> <<>>]
  /\ result = [p \in Procs |-> NoResult]
  /\ admin = NoRequest(NoConfig)

\* new EmbyClient(config)
Construct ==
  /\ serverUrl = <<>>
  /\ serverUrl' = Normalize(ServerURL)
  /\ UNCHANGED <<ServerURL, session, pc, op, args, authResult, entry, reqs, resps, result, admin>>

\* new EmbyClient({ ServerURL: <the endpoint of the client at hand> })
Reconstruct ==
  /\ serverUrl # <<>>
  /\ ServerURL # serverUrl
  /\ ServerURL' = serverUrl
  /\ serverUrl' = Normalize(serverUrl)
  /\ UNCHANGED <<session, pc, op, args, authResult, entry, reqs, resps, result, admin>>

NormNext == Construct \/ Reconstruct

NormSpec == NormInit /\ [][NormNext]_vars

(***************************************************************************)
(* Reading an operation's record of fetch calls.                           *)
(***************************************************************************)
\* The positions of p's fetch calls of one kind.
CallsOf(p, kind) == {i \in 1..Len(reqs[p]) : reqs[p][i].kind = kind}
Logins(p) == Cardinality(CallsOf(p, "login"))
DataCalls(p) == Cardinality(CallsOf(p, "data"))

\* p's k-th data-endpoint call has been made, resp. has been answered.
NthData(p, k) ==
  CHOOSE i \in CallsOf(p, "data") : Cardinality({j \in CallsOf(p, "data") : j <= i}) = k
HasData(p, k) == DataCalls(p) >= k
DataAnswered(p, k) == HasData(p, k) /\ NthData(p, k) <= Len(resps[p])
DataStatus(p, k) == resps[p][NthData(p, k)].status

\* The session can log in by itself: username and password, no apiKey.
LoginOnly == apiKey = "" /\ username # "" /\ password # ""

\* p's data operation got 401 on its first data call and an answer on the retry.
Retried(p) ==
  /\ op[p] \in DataOps /\ pc[p] = "done" /\ LoginOnly
  /\ DataAnswered(p, 2)
  /\ DataStatus(p, 1) = HTTP_UNAUTHORIZED

\* The retried data call follows a login and carries that login's token.
RetryCarriesNewToken(p) ==
  LET i == NthData(p, 2) IN
    /\ reqs[p][i - 1].kind = "login"
    /\ IsOk(resps[p][i - 1].status)
    /\ reqs[p][i].cred = resps[p][i - 1].token

\* The logins p's operation made after its first data call.
Relogins(p) == Cardinality({i \in CallsOf(p, "login") : i > NthData(p, 1)})

\* C1 as stated: with username+password and no apiKey, with or without a cached
\* token, a data operation answered 401 and then success on the retry made
\* exactly one login call and exactly two data-endpoint calls, the second
\* carrying the token that login returned.
C1_AsStated ==
  \A p \in Procs :
    (Retried(p) /\ IsOk(DataStatus(p, 2))) =>
      /\ Logins(p) = 1
      /\ DataCalls(p) = 2
      /\ RetryCarriesNewToken(p)

\* C1 as amended: such an operation made exactly two data-endpoint calls and
\* exactly one login after the 401 (the re-login), whose token the second data
\* call carries; in all it made one login when a token was cached at its start
\* and two (the lazy login, then the re-login) when none was.
C1_RetryOnce ==
  \A p \in Procs :
    (Retried(p) /\ IsOk(DataStatus(p, 2))) =>
      /\ DataCalls(p) = 2
      /\ Relogins(p) = 1
      /\ Logins(p) = IF entry[p].token = "" THEN 2 ELSE 1
      /\ RetryCarriesNewToken(p)

C1_Witness ==
  \E p \in Procs :
    /\ Retried(p) /\ IsOk(DataStatus(p, 2))
    /\ entry[p].token # ""
    /\ result[p].kind = "value"

\* C2 as stated: with username+password and no apiKey, a data operation answered
\* 401 on the first call and 401 again on the retry ends in a request error after
\* exactly one login attempt and exactly two data-endpoint calls.
C2_AsStated ==
  \A p \in Procs :
    (Retried(p) /\ DataStatus(p, 2) = HTTP_UNAUTHORIZED) =>
      /\ result[p].kind = "error"
      /\ result[p].label = RequestError(op[p], resps[p][NthData(p, 2)]).label
      /\ Logins(p) = 1
      /\ DataCalls(p) = 2

\* C2 as amended: such an operation ends in a request error after exactly two
\* data-endpoint calls and exactly one login after the first 401; in all it made
\* one login when a token was cached at its start and two when none was; the
\* second 401 is the operation's last fetch call.
C2_NoLoop ==
  \A p \in Procs :
    (Retried(p) /\ DataStatus(p, 2) = HTTP_UNAUTHORIZED) =>
      /\ result[p].kind = "error"
      /\ result[p].label = RequestError(op[p], resps[p][NthData(p, 2)]).label
      /\ DataCalls(p) = 2
      /\ Relogins(p) = 1
      /\ Logins(p) = IF entry[p].token = "" THEN 2 ELSE 1
      /\ NthData(p, 2) = Len(reqs[p])

C2_Witness ==
  \E p \in Procs :
    /\ Retried(p) /\ DataStatus(p, 2) = HTTP_UNAUTHORIZED
    /\ entry[p].token # ""
    /\ result[p].kind = "error"

\* C3: on a session whose apiKey is set, no data operation ever calls the login
\* endpoint, whatever else is configured and whatever the data endpoint answers:
\* ensureAuthenticated returns at once and the 401 branch is not taken.
C3_ApiKeyNeverLogsIn ==
  \A p \in Procs :
    (apiKey # "" /\ op[p] \in DataOps) =>
      /\ Logins(p) = 0
      /\ pc[p] \notin {"ensure_login", "ensure_resume", "relogin", "retry_resume", "retry_fetch"}

C3_Witness ==
  \E p \in Procs :
    /\ apiKey # "" /\ username # "" /\ password # "" /\ authToken = ""
    /\ op[p] \in DataOps /\ pc[p] = "done"
    /\ DataAnswered(p, 1) /\ DataStatus(p, 1) = HTTP_UNAUTHORIZED
    /\ Logins(p) = 0

\* The session p's operation was called on had username+password only.
FreshLoginOnly(p) == LoginOnly /\ entry[p].token = "" /\ entry[p].uid = ""

\* C4: on a session with only username+password (no apiKey, no cached token, no
\* cached userId) a data operation's first fetch call is the login; its data call
\* comes right after that login and carries the token and the user id the login
\* returned; and when the data endpoint does not answer 401 that login is the
\* only one of the operation.
C4_LoginBeforeData ==
  \A p \in Procs :
    (op[p] \in DataOps /\ FreshLoginOnly(p)) =>
      /\ Len(reqs[p]) >= 1 /\ reqs[p][1] = LoginRequest
      /\ HasData(p, 1) =>
           /\ NthData(p, 1) = 2
           /\ IsOk(resps[p][1].status)
           /\ reqs[p][2].cred = resps[p][1].token
           /\ reqs[p][2].uid = resps[p][1].uid
      /\ (pc[p] = "done" /\ DataAnswered(p, 1) /\ DataStatus(p, 1) # HTTP_UNAUTHORIZED) =>
           /\ Logins(p) = 1
           /\ DataCalls(p) = 1

C4_Witness ==
  \E p \in Procs :
    /\ op[p] \in DataOps /\ FreshLoginOnly(p)
    /\ pc[p] = "done" /\ result[p].kind = "value"
    /\ Logins(p) = 1 /\ DataCalls(p) = 1
    /\ reqs[p][2].cred = resps[p][1].token

\* The session p's operation was called on has no usable credential: no apiKey,
\* no token, and not both username and password.
NoCredential(p) ==
  /\ apiKey = "" /\ entry[p].token = ""
  /\ ~(username # "" /\ password # "")

\* C5 as stated: on a session with no apiKey, no token and without both username
\* and password, every data operation fails at once with a configuration error and
\* makes no login call and no data-endpoint call, whether or not a userId is set.
C5_AsStated ==
  \A p \in Procs :
    (op[p] \in DataOps /\ NoCredential(p)) =>
      /\ reqs[p] = <<>>
      /\ pc[p] = "done" => (result[p].kind = "error" /\ result[p].detail = <<>>)

\* p's operation was refused for the missing user id.
RefusedForUserId(p) == pc[p] = "done" /\ result[p] = UserIdError

C6_EveryDataCallHasUserId ==
  \A p \in Procs : \A i \in CallsOf(p, "data") : reqs[p][i].uid # ""

C6_RefusalIsTerminal ==
  \A p \in Procs :
    (pc[p] = "ensured" /\ userId = "" /\ pc'[p] # pc[p]) =>
      /\ pc'[p] = "done"
      /\ result'[p] = UserIdError
      /\ reqs'[p] = reqs[p]

\* C6: every request to a user-scoped data endpoint, the one rebuilt after a
\* re-login included, is built with a non-empty userId; and a data operation that
\* finds userId absent after ensureAuthenticated ends right there in the
\* configuration error, with no data-endpoint call made and none made later.
C6_UserIdBeforeDataCall ==
  /\ [](C6_EveryDataCallHasUserId /\ \A p \in Procs : RefusedForUserId(p) => DataCalls(p) = 0)
  /\ [][C6_RefusalIsTerminal]_vars

C6_Witness ==
  \E p \in Procs :
    /\ op[p] \in DataOps /\ RefusedForUserId(p)
    /\ entry[p].token # "" /\ userId = ""

\* The answer p's login got in this step, if this step is the settling of a login.
LoginSettles(p) ==
  /\ pc[p] \in {"ensure_login", "relogin", "auth_login"}
  /\ Len(resps'[p]) = Len(resps[p]) + 1

\* C7: authenticate stores the returned token and user id into the session
\* exactly when the login endpoint answers with a success status; on any other
\* outcome the session's token and userId are after the call what they were
\* before it.
C7_LoginStoresOnSuccessOnly ==
  [][\A p \in Procs :
       LoginSettles(p) =>
         LET r == resps'[p][Len(resps'[p])] IN
           IF IsOk(r.status)
             THEN authToken' = r.token /\ userId' = r.uid
             ELSE authToken' = authToken /\ userId' = userId]_vars

C7_Witness ==
  \E p \in Procs :
    /\ pc[p] = "done" /\ Len(resps[p]) = Len(reqs[p]) /\ Len(reqs[p]) >= 1
    /\ reqs[p][Len(reqs[p])].kind = "login"
    /\ resps[p][Len(resps[p])].status = HTTP_UNAUTHORIZED
    /\ authToken = "tok0" /\ userId = "uid0"
    /\ result[p].kind = "error"

\* The positions of the logins of p's operation that failed.
FailedLogins(p) ==
  {i \in CallsOf(p, "login") : i <= Len(resps[p]) /\ ~IsOk(resps[p][i].status)}

\* C8: when a login made inside a data operation fails (the lazy one or the
\* re-login), the operation ends with that failure thrown to its caller and makes
\* no data-endpoint call after the failed login.
C8_LoginFailurePropagates ==
  \A p \in Procs :
    op[p] \in DataOps =>
      \A i \in FailedLogins(p) :
        /\ pc[p] = "done"
        /\ i = Len(reqs[p])
        /\ result[p] = IF resps[p][i] = FetchThrew THEN FetchError
                       ELSE AuthenticationError(resps[p][i])

C8_Witness ==
  \E p \in Procs :
    /\ op[p] \in DataOps /\ DataCalls(p) = 1
    /\ FailedLogins(p) = {Len(reqs[p])}
    /\ result[p].label = "EmbyAuthFailed"

\* C9: checkConnectivity never ends in an error: it returns true exactly when
\* the probe is answered with a success status, and false on any other status
\* and when fetch rejects.
C9_ProbeNeverThrows ==
  \A p \in Procs :
    (op[p] = "checkConnectivity" /\ pc[p] = "done") =>
      LET r == resps[p][1] IN
        /\ result[p].kind = "value"
        /\ result[p].value = <<(r # FetchThrew /\ IsOk(r.status))>>

C9_Witness ==
  \E p \in Procs :
    /\ op[p] = "checkConnectivity" /\ pc[p] = "done"
    /\ resps[p][1] = FetchThrew
    /\ result[p].value = <<FALSE>>

\* p's data operation ended on a data-endpoint answer that is not a success.
EndedOnFailure(p) ==
  /\ op[p] \in DataOps /\ pc[p] = "done"
  /\ Len(reqs[p]) >= 1 /\ Len(resps[p]) = Len(reqs[p])
  /\ reqs[p][Len(reqs[p])].kind = "data"
  /\ resps[p][Len(resps[p])] # FetchThrew
  /\ ~IsOk(resps[p][Len(resps[p])].status)

\* C10 as stated: for each of the four data operations, when the final (possibly
\* retried) answer is not a success the operation fails with an error of its own
\* that carries the HTTP status and the body text of that answer.
C10_AsStated ==
  \A p \in Procs :
    EndedOnFailure(p) =>
      LET r == resps[p][Len(resps[p])] IN
        /\ result[p].kind = "error"
        /\ result[p].label = RequestError(op[p], r).label
        /\ result[p].detail = <<r.status, r.text>>

ListingOps == {"getItems", "getSeasons", "getEpisodes"}

\* p's data operation ended on a success answer of the data endpoint.
EndedOnSuccess(p) ==
  /\ op[p] \in DataOps /\ pc[p] = "done"
  /\ Len(reqs[p]) >= 1 /\ Len(resps[p]) = Len(reqs[p])
  /\ reqs[p][Len(reqs[p])].kind = "data"
  /\ IsOk(resps[p][Len(resps[p])].status)

\* The collection the caller of a listing operation holds: result.Items for
\* getItems (<<>> when that field is absent), the returned list itself for
\* getSeasons and getEpisodes.
Collection(p) ==
  IF op[p] = "getItems" THEN result[p].value[1].Items ELSE <<result[p].value[1]>>

\* C11 as stated: for every listing operation (getItems, getSeasons,
\* getEpisodes), first try or retry, a success answer whose body lacks the Items
\* field yields an empty collection: not an error and not an absent collection.
C11_AsStated ==
  \A p \in Procs :
    (op[p] \in ListingOps /\ EndedOnSuccess(p)
       /\ ItemsOf(resps[p][Len(resps[p])].text) = <<>>) =>
      /\ result[p].kind = "value"
      /\ Collection(p) = << <<>> >>

\* C14: the endpoint normalization is idempotent: the endpoint a client holds
\* normalizes to itself, so a client built from it holds the same endpoint; and
\* 'http://host:8096/' and 'http://host:8096/emby' both give
\* 'http://host:8096/emby'.
C14_NormalizeIdempotent ==
  serverUrl # <<>> =>
    /\ Normalize(serverUrl) = serverUrl
    /\ ServerURL \in {HostSlash, HostEmby} => serverUrl = HostEmby

C14_Witness ==
  /\ ServerURL = <<"e", "/", "e", "m", "b", "y">>
  /\ serverUrl = ServerURL

\* The credentials a URL carries in its query.
CredsOf(url) ==
  {url.query[i][2] : i \in {j \in DOMAIN url.query : url.query[j][1] \in {"api_key", "X-Emby-Token"}}}

\* The URLs a finished URL builder handed to its caller.
UrlsOf(p) ==
  IF op[p] = "getSubtitles"
    THEN {result[p].value[1][i].url : i \in DOMAIN result[p].value[1]}
    ELSE {result[p].value[1]}

\* The credentials of the requests p's operation sent to a data endpoint, to the
\* probe endpoint or with the headers of getHeaders.
RequestCreds(p) ==
  {reqs[p][i].cred : i \in {j \in DOMAIN reqs[p] : reqs[p][j].kind \in {"data", "probe", "me"}}}

\* The server-provided delivery URLs of the external subtitle streams of the
\* first media source of the item p's getSubtitles was called with.
DeliveryUrls(p) ==
  LET item == args[p].item IN
    IF item.MediaSources = <<>> \/ item.MediaSources[1] = <<>> THEN {}
    ELSE LET ms == item.MediaSources[1][1] IN
      IF ms.MediaStreams = <<>> THEN {}
      ELSE {Url(<<ms.MediaStreams[1][i].DeliveryUrl>>, <<>>) :
              i \in {j \in DOMAIN ms.MediaStreams[1] :
                       /\ ms.MediaStreams[1][j].Type = "Subtitle"
                       /\ ms.MediaStreams[1][j].IsExternal
                       /\ ms.MediaStreams[1][j].DeliveryUrl # ""}}

\* C12 as stated: while both apiKey and token are present, every request and
\* every URL the client builds (data-endpoint requests, probe URL, image, stream
\* and subtitle URLs, request headers) carries the apiKey and never the token.
C12_AsStated ==
  (apiKey # "" /\ authToken # "") =>
    \A p \in Procs :
      /\ RequestCreds(p) \subseteq {apiKey}
      /\ (op[p] \in UrlOps /\ pc[p] = "done") =>
           \A u \in UrlsOf(p) : CredsOf(u) = {apiKey}

\* C12 as amended: while both apiKey and token are present, none of them carries
\* the token, and each carries the apiKey except the URL of an external subtitle
\* stream with a DeliveryUrl, which carries no credential at all.
C12_ApiKeyPrecedence ==
  (apiKey # "" /\ authToken # "") =>
    \A p \in Procs :
      /\ RequestCreds(p) \subseteq {apiKey}
      /\ (op[p] \in UrlOps /\ pc[p] = "done") =>
           \A u \in UrlsOf(p) :
             IF op[p] = "getSubtitles" /\ u \in DeliveryUrls(p)
               THEN CredsOf(u) = {}
               ELSE CredsOf(u) = {apiKey}

C12_Witness ==
  \E p \in Procs :
    /\ apiKey # "" /\ authToken # ""
    /\ op[p] = "getSubtitles" /\ pc[p] = "done"
    /\ \E u \in UrlsOf(p) : CredsOf(u) = {apiKey}
    /\ \E u \in UrlsOf(p) : CredsOf(u) = {}

\* The streams of type Subtitle of the first media source of an item, in order;
\* none when the item has no media sources or that source has no media streams.
SubtitleStreamsOf(item) ==
  LET OfTypeSubtitle(st) == st.Type = "Subtitle" IN
    IF item.MediaSources = <<>> THEN <<>>
    ELSE IF item.MediaSources[1] = <<>> THEN <<>>
    ELSE IF item.MediaSources[1][1].MediaStreams = <<>> THEN <<>>
    ELSE SelectSeq(item.MediaSources[1][1].MediaStreams[1], OfTypeSubtitle)

\* C15: getSubtitles returns one entry per stream of type Subtitle of the item's
\* first media source, in order: endpoint + DeliveryUrl, verbatim and without a
\* credential, for an external stream that has a DeliveryUrl, and
\* {endpoint}/Videos/{itemId}/{mediaSourceId}/Subtitles/{Index}/Stream.vtt?api_key={credential}
\* for every other one; an item without media sources or media streams gives the
\* empty list.  (On a session without any credential the api_key slot holds the
\* text the template gives for undefined.)
C15_SubtitleUrls ==
  \A p \in Procs :
    (op[p] = "getSubtitles" /\ pc[p] = "done") =>
      LET item == args[p].item
          subs == SubtitleStreamsOf(item)
          got == result[p].value[1]
      IN  /\ result[p].kind = "value"
          /\ Len(got) = Len(subs)
          /\ \A i \in 1..Len(subs) :
               got[i].url =
                 IF subs[i].IsExternal /\ subs[i].DeliveryUrl # ""
                   THEN [endpoint |-> serverUrl, path |-> <<subs[i].DeliveryUrl>>,
                         query |-> <<>>]
                   ELSE [endpoint |-> serverUrl,
                         path |-> <<"/Videos/", item.Id, "/", item.MediaSources[1][1].Id,
                                    "/Subtitles/", ToString(subs[i].Index), "/Stream.vtt">>,
                         query |-> << <<"api_key",
                                       IF apiKey # "" THEN apiKey
                                       ELSE IF authToken # "" THEN authToken
                                       ELSE "undefined">> >>]

C15_Witness ==
  \E p \in Procs :
    /\ op[p] = "getSubtitles" /\ pc[p] = "done"
    /\ apiKey = "" /\ authToken # ""
    /\ Len(SubtitleStreamsOf(args[p].item)) = 2
    /\ Len(result[p].value[1]) = 2
    /\ result[p].value[1][1].url = [endpoint |-> HostEmby, path |-> <<"/sub1.vtt">>, query |-> <<>>]
    /\ result[p].value[1][2].url =
         [endpoint |-> HostEmby,
          path |-> <<"/Videos/", "item1", "/", "ms1", "/Subtitles/", "2", "/Stream.vtt">>,
          query |-> << <<"api_key", authToken>> >>]

\* p's data operation has the answer of its first data-endpoint call.
FirstAnswered(p) ==
  /\ op[p] \in DataOps
  /\ DataAnswered(p, 1)
  /\ resps[p][NthData(p, 1)] # FetchThrew

\* The first answer is exactly 401 on a session with username+password and no apiKey.
RetryCondition(p) == DataStatus(p, 1) = HTTP_UNAUTHORIZED /\ LoginOnly

\* The re-login of p's operation was answered with a success status.
ReloginSucceeded(p) ==
  \E i \in CallsOf(p, "login") :
    i > NthData(p, 1) /\ i <= Len(resps[p]) /\ IsOk(resps[p][i].status)

\* Any other case ends the operation after its one data-endpoint call.
C16_NoRetryOtherwise(p) ==
  (pc[p] = "done" /\ ~IsOk(DataStatus(p, 1)) /\ ~RetryCondition(p)) =>
    /\ result[p].kind = "error"
    /\ DataCalls(p) = 1
    /\ Relogins(p) = 0

\* C16 as stated: a data operation performs a re-login and a second
\* data-endpoint call if and only if the first answer is exactly 401 and
\* username and password are configured and no apiKey is; on any other
\* non-success status, and on a 401 without username/password, it fails after
\* exactly one data-endpoint call and no re-login.
C16_AsStated ==
  \A p \in Procs :
    (FirstAnswered(p) /\ pc[p] = "done") =>
      /\ (Relogins(p) = 1 /\ DataCalls(p) = 2) <=> RetryCondition(p)
      /\ C16_NoRetryOtherwise(p)

\* C16 as amended: a data operation performs a re-login if and only if the first
\* answer is exactly 401 and username and password are configured and no apiKey
\* is, and it makes a second data-endpoint call if and only if that re-login
\* succeeds; on any other non-success status, and on a 401 without
\* username/password, it fails after exactly one data-endpoint call and no
\* re-login.
C16_RetryIffUnauthorized ==
  \A p \in Procs :
    FirstAnswered(p) =>
      /\ Relogins(p) = (IF RetryCondition(p) THEN 1 ELSE 0)
      /\ pc[p] = "done" => (DataCalls(p) = 2 <=> (RetryCondition(p) /\ ReloginSucceeded(p)))
      /\ DataCalls(p) <= 2
      /\ C16_NoRetryOtherwise(p)

C16_Witness ==
  \E p \in Procs :
    /\ FirstAnswered(p) /\ pc[p] = "done"
    /\ DataStatus(p, 1) = HTTP_UNAUTHORIZED
    /\ apiKey = "" /\ username = "" /\ authToken # ""
    /\ DataCalls(p) = 1 /\ Logins(p) = 0
    /\ result[p].kind = "error"

\* C20: a single data operation makes at most two login calls and at most two
\* data-endpoint calls, and, every network call settling, it ends with a
\* result or an error.
C20_Terminates ==
  /\ [](\A p \in Procs : op[p] \in DataOps => (Logins(p) <= 2 /\ DataCalls(p) <= 2))
  /\ \A p \in Procs : (op[p] \in DataOps /\ pc[p] # "done") ~> (pc[p] = "done")

C20_Witness ==
  \E p \in Procs :
    /\ op[p] \in DataOps /\ pc[p] = "done"
    /\ Logins(p) = 2 /\ DataCalls(p) = 2

\* The session's (token, userId) pair.
SessionPair == <<authToken, userId>>

\* p's step stores a login's pair: authenticate on a success answer, or the
\* continuation of ensureAuthenticated or of the retry branch.
Wrote(p) ==
  \/ /\ pc[p] \in {"ensure_login", "relogin", "auth_login"}
     /\ pc'[p] # pc[p]
     /\ result'[p].kind # "error"
  \/ pc[p] = "ensure_resume" /\ pc'[p] = "ensured"
  \/ pc[p] = "retry_resume" /\ pc'[p] = "retry_fetch"

\* Each store sets token and userId to the storing caller's login pair, and
\* nothing else changes them: the session is what the last store wrote.
LastWriterWins ==
  /\ \A p \in Procs :
       Wrote(p) => (authToken' = authResult'[p].token /\ userId' = authResult'[p].uid)
  /\ (\A p \in Procs : ~Wrote(p)) => (authToken' = authToken /\ userId' = userId)

\* C13: on a session with username+password, no apiKey and no token, with the
\* data operations of two callers in flight at once, every data-endpoint
\* request sent carries the token and user id some login of the client
\* returned together (never an empty or mixed credential), and the session
\* token/userId are always those of the last store.
C13_ConcurrentLogins ==
  /\ [](\A p \in Procs : \A i \in CallsOf(p, "data") :
          <<reqs[p][i].cred, reqs[p][i].uid>> \in IssuedPairs)
  /\ [][LastWriterWins]_vars

\* Both callers saw the missing token and each made its own login.
BothLoggedIn ==
  \A p \in Procs :
    /\ op[p] \in DataOps
    /\ entry[p].token = ""
    /\ Len(resps[p]) >= 1
    /\ reqs[p][1].kind = "login"
    /\ IsOk(resps[p][1].status)

C13_Witness ==
  /\ BothLoggedIn
  /\ \A p \in Procs : pc[p] = "done" /\ DataCalls(p) = 1 /\ result[p].kind = "value"
  /\ resps["c1"][1].token # resps["c2"][1].token
  /\ reqs["c1"][2].cred = reqs["c2"][2].cred
  /\ SessionPair = <<resps["c1"][1].token, resps["c1"][1].uid>>

\* C19: at every await boundary, whatever operations and logins are in flight,
\* the session's (token, userId) pair is the pair supplied at construction or
\* the pair one successful login answer returned: a step changes it to such a
\* pair only, never to the token of one login with the user id of another.
C19_PairConsistent ==
  /\ [](SessionPair \in ({"", "tok0"} \X {"", "uid0"}) \cup IssuedPairs)
  /\ [][SessionPair' # SessionPair => SessionPair' \in IssuedPairs]_vars

C19_Witness ==
  \E p, q \in Procs :
    /\ pc[p] = "ensured" /\ pc[q] = "ensure_resume"
    /\ authResult[p].token # "" /\ authResult[q].token # ""
    /\ authResult[p].token # authResult[q].token
    /\ SessionPair = <<authResult[p].token, authResult[p].uid>>

\* The kinds of the fetch calls the handler's client has made, in order.
HandlerCalls == [i \in DOMAIN reqs[Handler] |-> reqs[Handler][i].kind]

\* The request's fields pass the two validations of 'save' and 'test'.
Validated(b) ==
  /\ b.ServerURL # <<>>
  /\ b.ApiKey # "" \/ (b.Username # "" /\ b.Password # "")

\* db.saveAdminConfig was called with an enabled configuration.
SavingEnabled == admin.saved > 0 /\ admin.EmbyConfig.Enabled

\* C17: the admin POST handler calls saveAdminConfig with an enabled
\* configuration only for a 'save' whose ServerURL is present, whose ApiKey or
\* Username and Password are present, whose login, made first when no ApiKey
\* was given, succeeded, and whose checkConnectivity, made after it, returned
\* true; the UserId and AuthToken saved are then those that login returned.
\* The client is not called before the validations pass.  A 'test', and a
\* 'save' answered 400 or 401, never call saveAdminConfig.
C17_SaveAfterChecks ==
  LET b == admin.body IN
    /\ reqs[Handler] # <<>> => Validated(b)
    /\ SavingEnabled =>
         /\ b.action = "save" /\ b.Enabled /\ Validated(b)
         /\ Len(resps[Handler]) = Len(reqs[Handler])
         /\ IsOk(resps[Handler][Len(resps[Handler])].status)
         /\ IF b.ApiKey = ""
              THEN /\ HandlerCalls = <<"login", "probe">>
                   /\ IsOk(resps[Handler][1].status)
                   /\ admin.EmbyConfig.AuthToken = resps[Handler][1].token
                   /\ admin.EmbyConfig.UserId = resps[Handler][1].uid
              ELSE HandlerCalls = <<"probe">>
    /\ (b.action = "test" \/ admin.status \in {400, 401}) => admin.saved = 0
    /\ admin.saved <= 1

C17_Witness ==
  /\ admin.pc = "responded" /\ admin.status = 200 /\ admin.success
  /\ admin.body.ApiKey = "" /\ admin.body.UserId = "uid0"
  /\ admin.stored.Enabled
  /\ admin.stored # admin.before
  /\ admin.stored.AuthToken = "tok1" /\ admin.stored.UserId = "uid2"
  /\ HandlerCalls = <<"login", "probe">>

\* The request passed the three checks: storage type, authenticated username,
\* owner or stored admin who is not banned.
Authorized ==
  /\ admin.storageType # "localstorage"
  /\ admin.username # ""
  /\ admin.username = Owner \/ admin.userInfo = "admin"

\* Nothing is saved and the client is not called for a request that is not
\* authorized, and the stored configuration stays as it was.
NoEffectUnlessAuthorized ==
  ~Authorized =>
    /\ admin.saved = 0
    /\ reqs[Handler] = <<>>
    /\ admin.stored = admin.before

\* C18 as stated: no configuration is saved and no login or connectivity call
\* is made unless the storage type is not 'localstorage', the request carries an
\* authenticated username and that user is the owner or a stored admin who is
\* not banned; every other request ends with a 400 or 401 response.
C18_AsStated ==
  /\ NoEffectUnlessAuthorized
  /\ (admin.pc = "responded" /\ ~Authorized) => admin.status \in {400, 401}

\* C18 as amended: the same, every other request ending with a 400 or 401
\* response, or with a 500 response when request.json(), getConfig() or
\* db.getUserInfoV2() threw before the checks were done.
C18_GuardedByChecks ==
  /\ NoEffectUnlessAuthorized
  /\ (admin.pc = "responded" /\ ~Authorized) =>
       \/ admin.status \in {400, 401}
       \/ /\ admin.status = 500
          /\ ~admin.bodyOk \/ ~admin.configOk \/ admin.userInfo = "threw"

C18_Witness ==
  /\ admin.pc = "responded"
  /\ admin.body.action = "save" /\ ~admin.body.Enabled
  /\ admin.userInfo = "banned"
  /\ admin.status = 401
  /\ admin.before.Enabled

====
